---- MODULE Spec2Model ----
(***************************************************************************)
(* The training driver main() of src/main.py as a state machine.           *)
(*                                                                         *)
(* One action per statement group of main(); pc is the driver's position.  *)
(* Tensors are functions over the lanes (parallel environments).  Their    *)
(* elements are symbolic values <<kind, k, lane>> naming the call that     *)
(* produced them, so that two tensors are equal exactly when they come     *)
(* from the same call; continuation and valid masks are the numbers 0/1.   *)
(* The environment vector, the policy, the discriminator and the rollout   *)
(* storage are collaborators outside src/: they are modelled from their    *)
(* contracts in the specification.                                         *)
(***************************************************************************)
EXTENDS Integers, Sequences, FiniteSets, TLC

\* ---------------------------------------------------------------- bounds
MaxNumSteps == 2
MaxNumProcesses == 2
MaxEnvSteps == 8
MaxSeed == 1

\* ------------------------------------------------------- program constants
DequeMaxLen == 10
WarmUpIters == 10
WarmUpEpochs == 100
DefaultGailEpoch == 5
DefaultSaveInterval == 100
DefaultLogInterval == 10
DefaultNumEnvSteps == 10000000
DefaultNumSteps == 5
DefaultNumProcesses == 16
log_mean_interval == 10
\* line 241: elif args.num_steps == 10
FNN1NumSteps == 10

VARIABLES
    args,                     \* parsed command line (never written again)
    pc,                       \* position of the driver in main()
    failure,                  \* "none", or the kind of error that ended the run
    j, step,                  \* loop indices of the two for loops
    rollouts,                 \* RolloutStorage
    obs, reward, done, infos, \* results of envs.reset() / envs.step()
    value, action, action_log_prob, recurrent_hidden_states,  \* results of act
    masks, bad_masks,         \* tensors built from done and infos
    next_value,               \* result of get_value
    params,                   \* version of the policy parameters
    lr,                       \* arguments of the last learning-rate schedule call
    discr,                    \* number of discriminator update calls made
    envs,                     \* environment vector: clock and train/eval mode
    episode_rewards, mean_episode_rewards, max_episode_rewards,
    checkpoint,               \* what torch.save wrote last
    printed,                  \* the log lines printed
    evaluated,                \* the parameter versions handed to evaluate
    log_mean_file,            \* the file written at the end
    calls,                    \* collaborator calls made in the current iteration
    act_args, act_prev_hidden, gv_args, insert_args, cr_args,
                              \* arguments of the last act / get_value / insert /
                              \* compute_returns call
    inserted_rewards,         \* rewards passed to insert in the current iteration
    seen_params               \* parameter versions read by act / get_value in
                              \* the current iteration

driver_vars == <<pc, failure, j, step>>
local_vars  == <<obs, reward, done, infos, value, action, action_log_prob,
                 recurrent_hidden_states, masks, bad_masks, next_value>>
world_vars  == <<params, lr, discr, envs, episode_rewards, mean_episode_rewards,
                 max_episode_rewards, checkpoint, printed, evaluated,
                 log_mean_file>>
call_vars   == <<calls, act_args, act_prev_hidden, gv_args, insert_args, cr_args,
                 inserted_rewards, seen_params>>
vars == <<args, rollouts, driver_vars, local_vars, world_vars, call_vars>>

\* ------------------------------------------------------------- helpers
Lanes == 1..args.num_processes
T == args.num_steps

Zero == <<"zero", 0, 0>>
Tensor(kind, k) == [i \in Lanes |-> <<kind, k, i>>]
Zeros == [i \in Lanes |-> Zero]
Ones == [i \in Lanes |-> 1]

RECURSIVE SumSeq(_)
SumSeq(s) == IF s = <<>> THEN 0 ELSE Head(s) + SumSeq(Tail(s))

RECURSIVE MaxSeq(_)
MaxSeq(s) ==
    IF Len(s) = 1 THEN Head(s)
    ELSE LET m == MaxSeq(Tail(s)) IN IF Head(s) > m THEN Head(s) ELSE m

\* deque(maxlen=10).append: the oldest element is dropped when full
DequeAppend(q, x) ==
    IF Len(q) < DequeMaxLen THEN Append(q, x) ELSE Append(Tail(q), x)

\* int(args.num_env_steps) // args.num_steps // args.num_processes
\* Mutant of NumUpdatesOf: the quotient rounded up instead of down
NumUpdatesRoundedUp(E, S, N) == (E + S * N - 1) \div (S * N)

\* lines 127-128: int(num_env_steps) // num_steps // num_processes
NumUpdatesOf(E, S, N) == (E \div S) \div N

num_updates ==
    NumUpdatesOf(args.num_env_steps, args.num_steps, args.num_processes)

\* ------------------------------------------------ environment vector
\* The environment is deterministic given its seed.  Lane i at clock k ends
\* in one of four ways, cycling with seed, clock and lane so that every run
\* long enough meets all four:
\*   0: a true terminal                     done = True,  info = {episode}
\*   1: the episode goes on                 done = False, info = {}
\*   2: an artificial time limit            done = True,  info = {episode, bad_transition}
\*   3: bad_transition without done         done = False, info = {bad_transition}
EnvOutcome(seed, k, i) == (seed + k + i) % 4

EnvDone(seed, k) == [i \in Lanes |-> EnvOutcome(seed, k, i) \in {0, 2}]

EnvInfos(seed, k) ==
    [i \in Lanes |->
        LET o == EnvOutcome(seed, k, i) IN
        [keys |-> (IF o \in {0, 2} THEN {"episode"} ELSE {})
                  \cup (IF o \in {2, 3} THEN {"bad_transition"} ELSE {}),
         episode_r |-> k * 10 + i]]

\* ------------------------------------------------ rollout storage
\* RolloutStorage(num_steps, num_processes, ...): T+1 slots of observation,
\* hidden state and masks, T slots of action, log-probability, value
\* prediction and reward.
NewStorage ==
    [obs |-> [t \in 0..T |-> Zeros],
     recurrent_hidden_states |-> [t \in 0..T |-> Zeros],
     masks |-> [t \in 0..T |-> Ones],
     bad_masks |-> [t \in 0..T |-> Ones],
     actions |-> [t \in 0..(T - 1) |-> Zeros],
     action_log_probs |-> [t \in 0..(T - 1) |-> Zeros],
     value_preds |-> [t \in 0..(T - 1) |-> Zeros],
     rewards |-> [t \in 0..(T - 1) |-> Zeros],
     returns |-> [next_value |-> Zeros, rewards |-> <<>>],
     step |-> 0,
     allocated |-> FALSE]

\* insert: writes observation, hidden state and masks into slot step+1 and
\* action, log-probability, value and reward into slot step.
StorageInsert(r, o, h, a, lp, v, rw, m, bm) ==
    [r EXCEPT !.obs[r.step + 1] = o,
              !.recurrent_hidden_states[r.step + 1] = h,
              !.actions[r.step] = a,
              !.action_log_probs[r.step] = lp,
              !.value_preds[r.step] = v,
              !.rewards[r.step] = rw,
              !.masks[r.step + 1] = m,
              !.bad_masks[r.step + 1] = bm,
              !.step = r.step + 1]

\* insert's precondition: fewer than T transitions since the last after_update
InsertAllowed(r) == r.step < T

\* update's precondition: the buffer holds T transitions
UpdateAllowed(r) == r.step >= T

\* after_update: the carry-forward of slot T into slot 0
StorageAfterUpdate(r) ==
    [r EXCEPT !.obs[0] = r.obs[T],
              !.recurrent_hidden_states[0] = r.recurrent_hidden_states[T],
              !.masks[0] = r.masks[T],
              !.bad_masks[0] = r.bad_masks[T],
              !.step = 0]

\* compute_returns: the return table is derived from the bootstrap value and
\* the buffered rewards; the step records are left alone.
StorageComputeReturns(r, nv) ==
    [r EXCEPT !.returns = [next_value |-> nv,
                           rewards |-> [t \in 1..T |-> r.rewards[t - 1]]]]

\* ------------------------------------------------ tensors the driver builds
\* Mutant of MasksOf: the two branches swapped
MasksOfSwapped(d) == [i \in DOMAIN d |-> IF d[i] THEN 1 ELSE 0]

\* torch.FloatTensor([[0.0] if done_ else [1.0] for done_ in done])
MasksOf(d) == [i \in DOMAIN d |-> IF d[i] THEN 0 ELSE 1]

\* Mutant of BadMasksOf: bad_transition counts only on an episode's last step
BadMasksOfEpisodeEnd(inf) ==
    [i \in DOMAIN inf |->
        IF "bad_transition" \in inf[i].keys /\ "episode" \in inf[i].keys
        THEN 0 ELSE 1]

\* torch.FloatTensor([[0.0] if 'bad_transition' in info.keys() else [1.0] ...])
BadMasksOf(inf) ==
    [i \in DOMAIN inf |-> IF "bad_transition" \in inf[i].keys THEN 0 ELSE 1]

\* obs[prob_flicker > 0.5] = 0
Flickered(o, hit) == [i \in DOMAIN o |-> IF i \in hit THEN Zero ELSE o[i]]

\* Mutant of MoreSteps: one round too many
MoreStepsOneMore(s) == s + 1 <= T

\* Mutant of MoreSteps: one round too few
MoreStepsOneLess(s) == s + 1 < T - 1

\* line 138: for step in range(args.num_steps) has a round after round s
MoreSteps(s) == s + 1 < T

\* Mutant of BootstrapSlot: the last transition slot instead of slot T
BootstrapSlotBeforeLast == T - 1

\* lines 169-170: the index -1 of the T+1 slots
BootstrapSlot == T

\* Mutant of AfterGetValue: estimation left out
AfterGetValueNoReturns == "update"

\* line 172: if args.gail, else straight to line 188
AfterGetValue == IF args.gail THEN "gail_update" ELSE "compute_returns"

\* Mutant of ShapedSlots: the last reward slot left out
ShapedSlotsButLast == 0..(T - 2)

\* line 183: for step in range(args.num_steps)
ShapedSlots == 0..(T - 1)

\* ------------------------------------------------------------- Init
ArgsDomain ==
    [num_steps : 1..MaxNumSteps,
     num_processes : 1..MaxNumProcesses,
     num_env_steps : {0, MaxEnvSteps},
     seed : 0..MaxSeed,
     gail : BOOLEAN,
     gail_epoch : {DefaultGailEpoch},
     flicker : BOOLEAN,
     use_linear_lr_decay : BOOLEAN,
     save_dir : {"", "./trained_models/"},
     save_interval : {DefaultSaveInterval},
     log_interval : {DefaultLogInterval},
     eval_interval : {{}, {1}},
     obs_dims : {1, 3},
     algo : {"a2c"},
     IAM : {FALSE},
     recurrent_policy : {FALSE}]

\* The state main() starts in, whatever the arguments
InitRest ==
    /\ pc = "start"
    /\ failure = "none"
    /\ j = 0
    /\ step = 0
    /\ rollouts = NewStorage
    /\ obs = Zeros /\ reward = Zeros
    /\ done = [i \in Lanes |-> FALSE]
    /\ infos = [i \in Lanes |-> [keys |-> {}, episode_r |-> 0]]
    /\ value = Zeros /\ action = Zeros /\ action_log_prob = Zeros
    /\ recurrent_hidden_states = Zeros
    /\ masks = Ones /\ bad_masks = Ones
    /\ next_value = Zeros
    /\ params = 0
    /\ lr = <<>>
    /\ discr = 0
    /\ envs = [clock |-> 0, training |-> TRUE, resets |-> 0]
    /\ episode_rewards = <<>>
    /\ mean_episode_rewards = <<>>
    /\ max_episode_rewards = <<>>
    /\ checkpoint = <<>>
    /\ printed = <<>>
    /\ evaluated = <<>>
    /\ log_mean_file = [name |-> "none", dump |-> <<>>]
    /\ calls = <<>>
    /\ act_args = [obs |-> Zeros, hidden |-> Zeros, masks |-> Ones,
                   no_grad |-> TRUE, params |-> 0]
    /\ act_prev_hidden = Zeros
    /\ gv_args = [obs |-> Zeros, hidden |-> Zeros, masks |-> Ones,
                  no_grad |-> TRUE, params |-> 0]
    /\ insert_args = [obs |-> Zeros, hidden |-> Zeros, action |-> Zeros,
                      action_log_prob |-> Zeros, value |-> Zeros,
                      reward |-> Zeros, masks |-> Ones, bad_masks |-> Ones]
    /\ cr_args = [next_value |-> Zeros, rewards |-> <<>>]
    /\ inserted_rewards = <<>>
    /\ seen_params = {}

Init ==
    /\ args \in {a \in ArgsDomain : a.gail \/ a.obs_dims = 3}
    /\ InitRest

\* The arguments that decide the length of the run, the checkpoints and the
\* name of the file: every remainder of num_env_steps, both save and log
\* intervals, the variants of the file name; the optional stages (gail, lr
\* decay, evaluation) are switched on. Without a save_dir the save interval
\* has no effect, one value of it is kept there.
SweepArgs ==
    {a \in [num_steps : (1..MaxNumSteps) \cup {FNN1NumSteps},
            num_processes : 1..MaxNumProcesses,
            num_env_steps : 0..MaxEnvSteps,
            seed : {0},
            gail : {TRUE},
            gail_epoch : {DefaultGailEpoch},
            flicker : BOOLEAN,
            use_linear_lr_decay : {TRUE},
            save_dir : {"", "./trained_models/"},
            save_interval : {2, DefaultSaveInterval},
            log_interval : {1, DefaultLogInterval},
            eval_interval : {{1}},
            obs_dims : {1},
            algo : {"a2c"},
            IAM : BOOLEAN,
            recurrent_policy : BOOLEAN] :
        a.save_dir = "" => a.save_interval = DefaultSaveInterval}

InitSweep ==
    /\ args \in SweepArgs
    /\ InitRest

\* ------------------------------------------------------------- actions
\* lines 41-91: seeding, make_vec_envs, IAMPolicy, the agent
Setup ==
    /\ pc = "start"
    /\ pc' = IF args.gail THEN "gail_setup" ELSE "make_rollouts"
    /\ UNCHANGED <<args, rollouts, failure, j, step, local_vars, world_vars,
                   call_vars>>

\* Mutant of GailSetup: the assertion on the observation space is left out
GailSetupUnchecked ==
    /\ pc = "gail_setup"
    /\ pc' = "make_rollouts"
    /\ UNCHANGED <<args, rollouts, failure, j, step, local_vars, world_vars,
                   call_vars>>

\* lines 93-109: the discriminator and the expert data, behind the assertion
\* len(envs.observation_space.shape) == 1
GailSetup ==
    /\ pc = "gail_setup"
    /\ IF args.obs_dims = 1
       THEN pc' = "make_rollouts" /\ failure' = failure
       ELSE pc' = "aborted" /\ failure' = "precondition"
    /\ UNCHANGED <<args, rollouts, j, step, local_vars, world_vars, call_vars>>

\* lines 111-113: rollouts = RolloutStorage(...)
MakeRollouts ==
    /\ pc = "make_rollouts"
    /\ rollouts' = [NewStorage EXCEPT !.allocated = TRUE]
    /\ pc' = "reset"
    /\ UNCHANGED <<args, failure, j, step, local_vars, world_vars, call_vars>>

\* Mutant of ResetEnvs: the observation is not copied into the buffer
ResetEnvsNotSeeding ==
    /\ pc = "reset"
    /\ obs' = Tensor("obs", 0)
    /\ envs' = [envs EXCEPT !.resets = @ + 1]
    /\ pc' = "loop"
    /\ UNCHANGED <<args, rollouts, failure, j, step, reward, done, infos, value,
                   action, action_log_prob, recurrent_hidden_states, masks,
                   bad_masks, next_value, params, lr, discr, episode_rewards,
                   mean_episode_rewards, max_episode_rewards, checkpoint,
                   printed, evaluated, log_mean_file, call_vars>>

\* lines 115-117: obs = envs.reset(); rollouts.obs[0].copy_(obs)
ResetEnvs ==
    /\ pc = "reset"
    /\ obs' = Tensor("obs", 0)
    /\ envs' = [envs EXCEPT !.resets = @ + 1]
    /\ rollouts' = [rollouts EXCEPT !.obs[0] = obs']
    /\ pc' = "loop"
    /\ UNCHANGED <<args, failure, j, step, reward, done, infos, value, action,
                   action_log_prob, recurrent_hidden_states, masks, bad_masks,
                   next_value, params, lr, discr, episode_rewards,
                   mean_episode_rewards, max_episode_rewards, checkpoint,
                   printed, evaluated, log_mean_file, call_vars>>

\* Mutant of LoopHead: one round more than num_updates
LoopHeadOneMore ==
    /\ pc = "loop"
    /\ IF j <= num_updates
       THEN /\ pc' = IF args.use_linear_lr_decay THEN "lr_decay" ELSE "act"
            /\ step' = 0
            /\ calls' = <<>>
            /\ inserted_rewards' = <<>>
            /\ seen_params' = {}
       ELSE /\ pc' = "write_log"
            /\ UNCHANGED <<step, calls, inserted_rewards, seen_params>>
    /\ UNCHANGED <<args, rollouts, failure, j, local_vars, world_vars, act_args,
                   act_prev_hidden, gv_args, insert_args, cr_args>>

\* line 130: for j in range(num_updates)
LoopHead ==
    /\ pc = "loop"
    /\ IF j < num_updates
       THEN /\ pc' = IF args.use_linear_lr_decay THEN "lr_decay" ELSE "act"
            /\ step' = 0
            /\ calls' = <<>>
            /\ inserted_rewards' = <<>>
            /\ seen_params' = {}
       ELSE /\ pc' = "write_log"
            /\ UNCHANGED <<step, calls, inserted_rewards, seen_params>>
    /\ UNCHANGED <<args, rollouts, failure, j, local_vars, world_vars, act_args,
                   act_prev_hidden, gv_args, insert_args, cr_args>>

\* lines 132-136: utils.update_linear_schedule(agent.optimizer, j, num_updates, lr)
LrDecay ==
    /\ pc = "lr_decay"
    /\ lr' = <<j, num_updates>>
    /\ pc' = "act"
    /\ UNCHANGED <<args, rollouts, failure, j, step, local_vars, params, discr,
                   envs, episode_rewards, mean_episode_rewards,
                   max_episode_rewards, checkpoint, printed, evaluated,
                   log_mean_file, call_vars>>

\* Mutant of Act: the first slot is read in every round
ActOnFirstSlot ==
    /\ pc = "act"
    /\ act_args' = [obs |-> rollouts.obs[0],
                    hidden |-> rollouts.recurrent_hidden_states[0],
                    masks |-> rollouts.masks[0],
                    no_grad |-> TRUE,
                    params |-> params]
    /\ act_prev_hidden' = recurrent_hidden_states
    /\ value' = Tensor("value", envs.clock + 1)
    /\ action' = Tensor("action", envs.clock + 1)
    /\ action_log_prob' = Tensor("log_prob", envs.clock + 1)
    /\ recurrent_hidden_states' = Tensor("hidden", envs.clock + 1)
    /\ seen_params' = seen_params \cup {params}
    /\ calls' = Append(calls, "act")
    /\ pc' = "env_step"
    /\ UNCHANGED <<args, rollouts, failure, j, step, obs, reward, done, infos,
                   masks, bad_masks, next_value, world_vars, gv_args,
                   insert_args, cr_args, inserted_rewards>>

\* lines 140-143: actor_critic.act on slot step of the buffer, gradients off
Act ==
    /\ pc = "act"
    /\ act_args' = [obs |-> rollouts.obs[step],
                    hidden |-> rollouts.recurrent_hidden_states[step],
                    masks |-> rollouts.masks[step],
                    no_grad |-> TRUE,
                    params |-> params]
    /\ act_prev_hidden' = recurrent_hidden_states
    /\ value' = Tensor("value", envs.clock + 1)
    /\ action' = Tensor("action", envs.clock + 1)
    /\ action_log_prob' = Tensor("log_prob", envs.clock + 1)
    /\ recurrent_hidden_states' = Tensor("hidden", envs.clock + 1)
    /\ seen_params' = seen_params \cup {params}
    /\ calls' = Append(calls, "act")
    /\ pc' = "env_step"
    /\ UNCHANGED <<args, rollouts, failure, j, step, obs, reward, done, infos,
                   masks, bad_masks, next_value, world_vars, gv_args,
                   insert_args, cr_args, inserted_rewards>>

\* line 146: obs, reward, done, infos = envs.step(action)
EnvStep ==
    /\ pc = "env_step"
    /\ envs' = [envs EXCEPT !.clock = @ + 1]
    /\ obs' = Tensor("obs", envs'.clock)
    /\ reward' = Tensor("reward", envs'.clock)
    /\ done' = EnvDone(args.seed, envs'.clock)
    /\ infos' = EnvInfos(args.seed, envs'.clock)
    /\ calls' = Append(calls, "step")
    /\ pc' = IF args.flicker THEN "flicker" ELSE "masks"
    /\ UNCHANGED <<args, rollouts, failure, j, step, value, action,
                   action_log_prob, recurrent_hidden_states, masks, bad_masks,
                   next_value, params, lr, discr, episode_rewards,
                   mean_episode_rewards, max_episode_rewards, checkpoint,
                   printed, evaluated, log_mean_file, act_args, act_prev_hidden,
                   gv_args, insert_args, cr_args, inserted_rewards, seen_params>>

\* Mutant of Flicker: the zeroing also reaches the buffer slot act has just read
FlickerInBuffer ==
    /\ pc = "flicker"
    /\ \E hit \in SUBSET Lanes :
          /\ obs' = Flickered(obs, hit)
          /\ rollouts' = [rollouts EXCEPT !.obs[step] = Flickered(@, hit)]
    /\ pc' = "masks"
    /\ UNCHANGED <<args, failure, j, step, reward, done, infos, value,
                   action, action_log_prob, recurrent_hidden_states, masks,
                   bad_masks, next_value, world_vars, call_vars>>

\* lines 149-151: np.random.uniform draws one number per lane; the lanes whose
\* draw exceeds 0.5 get a zero observation
Flicker ==
    /\ pc = "flicker"
    /\ \E hit \in SUBSET Lanes : obs' = Flickered(obs, hit)
    /\ pc' = "masks"
    /\ UNCHANGED <<args, rollouts, failure, j, step, reward, done, infos, value,
                   action, action_log_prob, recurrent_hidden_states, masks,
                   bad_masks, next_value, world_vars, call_vars>>

\* lines 154-156: episode_rewards.append(info['episode']['r']) in lane order
RECURSIVE AppendEpisodes(_, _, _)
AppendEpisodes(q, inf, i) ==
    IF i \notin DOMAIN inf THEN q
    ELSE AppendEpisodes(IF "episode" \in inf[i].keys
                        THEN DequeAppend(q, inf[i].episode_r) ELSE q,
                        inf, i + 1)

\* lines 154-163: the episode bookkeeping and the two mask tensors
BuildMasks ==
    /\ pc = "masks"
    /\ episode_rewards' = AppendEpisodes(episode_rewards, infos, 1)
    /\ masks' = MasksOf(done)
    /\ bad_masks' = BadMasksOf(infos)
    /\ pc' = "insert"
    /\ UNCHANGED <<args, rollouts, failure, j, step, obs, reward, done, infos,
                   value, action, action_log_prob, recurrent_hidden_states,
                   next_value, params, lr, discr, envs, mean_episode_rewards,
                   max_episode_rewards, checkpoint, printed, evaluated,
                   log_mean_file, call_vars>>

\* lines 164-165: rollouts.insert(...), then the next round of line 138
Insert ==
    /\ pc = "insert"
    /\ insert_args' = [obs |-> obs, hidden |-> recurrent_hidden_states,
                       action |-> action, action_log_prob |-> action_log_prob,
                       value |-> value, reward |-> reward, masks |-> masks,
                       bad_masks |-> bad_masks]
    /\ calls' = Append(calls, "insert")
    /\ IF InsertAllowed(rollouts)
       THEN /\ rollouts' = StorageInsert(rollouts, obs, recurrent_hidden_states,
                                         action, action_log_prob, value, reward,
                                         masks, bad_masks)
            /\ inserted_rewards' = Append(inserted_rewards, reward)
            /\ IF MoreSteps(step)
               THEN step' = step + 1 /\ pc' = "act"
               ELSE step' = step /\ pc' = "get_value"
            /\ failure' = failure
       ELSE /\ pc' = "aborted"
            /\ failure' = "precondition"
            /\ UNCHANGED <<rollouts, inserted_rewards, step>>
    /\ UNCHANGED <<args, j, local_vars, world_vars, act_args, act_prev_hidden,
                   gv_args, cr_args, seen_params>>

\* lines 167-170: next_value = actor_critic.get_value(slot -1).detach()
GetValue ==
    /\ pc = "get_value"
    /\ gv_args' = [obs |-> rollouts.obs[BootstrapSlot],
                   hidden |-> rollouts.recurrent_hidden_states[BootstrapSlot],
                   masks |-> rollouts.masks[BootstrapSlot],
                   no_grad |-> TRUE,
                   params |-> params]
    /\ next_value' = Tensor("next_value", j)
    /\ seen_params' = seen_params \cup {params}
    /\ calls' = Append(calls, "get_value")
    /\ pc' = AfterGetValue
    /\ UNCHANGED <<args, rollouts, failure, j, step, obs, reward, done, infos,
                   value, action, action_log_prob, recurrent_hidden_states,
                   masks, bad_masks, world_vars, act_args, act_prev_hidden,
                   insert_args, cr_args, inserted_rewards>>

\* Mutant of GailUpdate: the discriminator's step also moves the policy
GailUpdateMovesPolicy ==
    /\ pc = "gail_update"
    /\ envs' = IF j >= WarmUpIters THEN [envs EXCEPT !.training = FALSE] ELSE envs
    /\ discr' = discr + (IF j < WarmUpIters THEN WarmUpEpochs ELSE args.gail_epoch)
    /\ params' = params + 1
    /\ calls' = Append(calls, "discr_update")
    /\ pc' = "gail_rewards"
    /\ UNCHANGED <<args, rollouts, failure, j, step, local_vars, lr,
                   episode_rewards, mean_episode_rewards, max_episode_rewards,
                   checkpoint, printed, evaluated, log_mean_file, act_args,
                   act_prev_hidden, gv_args, insert_args, cr_args,
                   inserted_rewards, seen_params>>

\* lines 173-181: the discriminator's epochs (100 during warm up)
GailUpdate ==
    /\ pc = "gail_update"
    /\ envs' = IF j >= WarmUpIters THEN [envs EXCEPT !.training = FALSE] ELSE envs
    /\ discr' = discr + (IF j < WarmUpIters THEN WarmUpEpochs ELSE args.gail_epoch)
    /\ calls' = Append(calls, "discr_update")
    /\ pc' = "gail_rewards"
    /\ UNCHANGED <<args, rollouts, failure, j, step, local_vars, params, lr,
                   episode_rewards, mean_episode_rewards, max_episode_rewards,
                   checkpoint, printed, evaluated, log_mean_file, act_args,
                   act_prev_hidden, gv_args, insert_args, cr_args,
                   inserted_rewards, seen_params>>

\* lines 183-186: rollouts.rewards[step] = discr.predict_reward(...) for every step
GailRewards ==
    /\ pc = "gail_rewards"
    /\ rollouts' = [rollouts EXCEPT !.rewards =
                       [t \in 0..(T - 1) |->
                           IF t \in ShapedSlots
                           THEN Tensor("predict_reward", j * T + t + 1)
                           ELSE rollouts.rewards[t]]]
    /\ step' = T - 1
    /\ calls' = calls \o [t \in 1..Cardinality(ShapedSlots) |-> "predict_reward"]
    /\ pc' = "compute_returns"
    /\ UNCHANGED <<args, failure, j, local_vars, world_vars, act_args,
                   act_prev_hidden, gv_args, insert_args, cr_args,
                   inserted_rewards, seen_params>>

\* lines 188-189: rollouts.compute_returns(next_value, ...)
ComputeReturns ==
    /\ pc = "compute_returns"
    /\ cr_args' = [next_value |-> next_value,
                   rewards |-> [t \in 1..T |-> rollouts.rewards[t - 1]]]
    /\ rollouts' = StorageComputeReturns(rollouts, next_value)
    /\ calls' = Append(calls, "compute_returns")
    /\ pc' = "update"
    /\ UNCHANGED <<args, failure, j, step, local_vars, world_vars, act_args,
                   act_prev_hidden, gv_args, insert_args, inserted_rewards,
                   seen_params>>

\* line 191: value_loss, action_loss, dist_entropy = agent.update(rollouts)
Update ==
    /\ pc = "update"
    /\ calls' = Append(calls, "update")
    /\ IF UpdateAllowed(rollouts)
       THEN params' = params + 1 /\ pc' = "after_update" /\ failure' = failure
       ELSE params' = params /\ pc' = "aborted" /\ failure' = "precondition"
    /\ UNCHANGED <<args, rollouts, j, step, local_vars, lr, discr, envs,
                   episode_rewards, mean_episode_rewards, max_episode_rewards,
                   checkpoint, printed, evaluated, log_mean_file, act_args,
                   act_prev_hidden, gv_args, insert_args, cr_args,
                   inserted_rewards, seen_params>>

\* Mutant of AfterUpdate: the call is left out
AfterUpdateLeftOut ==
    /\ pc = "after_update"
    /\ pc' = "save"
    /\ UNCHANGED <<args, rollouts, failure, j, step, local_vars, world_vars,
                   call_vars>>

\* line 193: rollouts.after_update()
AfterUpdate ==
    /\ pc = "after_update"
    /\ rollouts' = StorageAfterUpdate(rollouts)
    /\ calls' = Append(calls, "after_update")
    /\ pc' = "save"
    /\ UNCHANGED <<args, failure, j, step, local_vars, world_vars, act_args,
                   act_prev_hidden, gv_args, insert_args, cr_args,
                   inserted_rewards, seen_params>>

\* Mutant of Save: the last iteration gets no checkpoint of its own
SaveNotLast ==
    /\ pc = "save"
    /\ checkpoint' =
          IF j % args.save_interval = 0 /\ args.save_dir # ""
          THEN Append(checkpoint, [j |-> j, params |-> params])
          ELSE checkpoint
    /\ pc' = "log"
    /\ UNCHANGED <<args, rollouts, failure, j, step, local_vars, params, lr,
                   discr, envs, episode_rewards, mean_episode_rewards,
                   max_episode_rewards, printed, evaluated, log_mean_file,
                   call_vars>>

\* lines 196-207: torch.save of the policy every save_interval-th iteration
\* and in the last one
Save ==
    /\ pc = "save"
    /\ checkpoint' =
          IF (j % args.save_interval = 0 \/ j = num_updates - 1)
             /\ args.save_dir # ""
          THEN Append(checkpoint, [j |-> j, params |-> params])
          ELSE checkpoint
    /\ pc' = "log"
    /\ UNCHANGED <<args, rollouts, failure, j, step, local_vars, params, lr,
                   discr, envs, episode_rewards, mean_episode_rewards,
                   max_episode_rewards, printed, evaluated, log_mean_file,
                   call_vars>>

\* lines 209-219: the progress line
Log ==
    /\ pc = "log"
    /\ printed' =
          IF j % args.log_interval = 0 /\ Len(episode_rewards) > 1
          THEN Append(printed,
                      [updates |-> j,
                       total_num_steps |->
                           (j + 1) * args.num_processes * args.num_steps])
          ELSE printed
    /\ pc' = "eval"
    /\ UNCHANGED <<args, rollouts, failure, j, step, local_vars, params, lr,
                   discr, envs, episode_rewards, mean_episode_rewards,
                   max_episode_rewards, checkpoint, evaluated, log_mean_file,
                   call_vars>>

\* lines 221-225: evaluate(actor_critic, ...)
Eval ==
    /\ pc = "eval"
    /\ evaluated' =
          IF /\ args.eval_interval # {}
             /\ Len(episode_rewards) > 1
             /\ \A e \in args.eval_interval : j % e = 0
          THEN Append(evaluated, params)
          ELSE evaluated
    /\ pc' = "mean_log"
    /\ UNCHANGED <<args, rollouts, failure, j, step, local_vars, params, lr,
                   discr, envs, episode_rewards, mean_episode_rewards,
                   max_episode_rewards, checkpoint, printed, log_mean_file,
                   call_vars>>

\* lines 228-230: the mean and the maximum of the last episodes, then the
\* next round of line 130
MeanLog ==
    /\ pc = "mean_log"
    /\ IF j % log_mean_interval = 0 /\ Len(episode_rewards) > 1
       THEN /\ mean_episode_rewards' =
                   Append(mean_episode_rewards,
                          <<SumSeq(episode_rewards), Len(episode_rewards)>>)
            /\ max_episode_rewards' =
                   Append(max_episode_rewards, MaxSeq(episode_rewards))
       ELSE UNCHANGED <<mean_episode_rewards, max_episode_rewards>>
    /\ j' = j + 1
    /\ pc' = "loop"
    /\ UNCHANGED <<args, rollouts, failure, step, local_vars, params, lr, discr,
                   envs, episode_rewards, checkpoint, printed, evaluated,
                   log_mean_file, call_vars>>

\* lines 233-248: pickle.dump(mean_episode_rewards) into the file of the variant
WriteLog ==
    /\ pc = "write_log"
    /\ log_mean_file' =
          [name |-> IF args.IAM THEN "mean_rewards_IAM.txt"
                    ELSE IF args.recurrent_policy THEN "mean_rewards_GRU.txt"
                    ELSE IF args.num_steps = FNN1NumSteps
                         THEN "mean_rewards_FNN1.txt"
                    ELSE "mean_rewards_FNN8.txt",
           dump |-> mean_episode_rewards]
    /\ pc' = "done"
    /\ UNCHANGED <<args, rollouts, failure, j, step, local_vars, params, lr,
                   discr, envs, episode_rewards, mean_episode_rewards,
                   max_episode_rewards, checkpoint, printed, evaluated,
                   call_vars>>

\* Mutant of CollaboratorFailure: the error is swallowed and the call repeated
CollaboratorFailureRetried ==
    /\ pc \in {"reset", "env_step", "act", "get_value", "update"}
    /\ failure = "none"
    /\ failure' = "collaborator"
    /\ UNCHANGED <<args, rollouts, pc, j, step, local_vars, world_vars, call_vars>>

\* An environment call (reset, step) or a model call (act, get_value, update)
\* raises: nothing in main() catches it, the run ends where it stands.
CollaboratorFailure ==
    /\ pc \in {"reset", "env_step", "act", "get_value", "update"}
    /\ pc' = "aborted"
    /\ failure' = "collaborator"
    /\ UNCHANGED <<args, rollouts, j, step, local_vars, world_vars, call_vars>>

Next ==
    \/ Setup \/ GailSetup \/ MakeRollouts \/ ResetEnvs
    \/ LoopHead \/ LrDecay
    \/ Act \/ EnvStep \/ Flicker \/ BuildMasks \/ Insert
    \/ GetValue \/ GailUpdate \/ GailRewards \/ ComputeReturns
    \/ Update \/ AfterUpdate
    \/ Save \/ Log \/ Eval \/ MeanLog
    \/ WriteLog
    \/ CollaboratorFailure

Spec == Init /\ [][Next]_vars

\* main() is one sequential program: while it has a statement to run, it runs
\* one.
SpecSweep == InitSweep /\ [][Next]_vars /\ WF_vars(Next)

\* ------------------------------------------------------------- properties
IsPrefix(s, t) == Len(s) <= Len(t) /\ \A n \in 1..Len(s) : s[n] = t[n]

Count(s, e) == Cardinality({n \in 1..Len(s) : s[n] = e})

\* Positions in main() after compute_returns has returned, within the iteration
AfterEstimation == {"update", "after_update", "save", "log", "eval", "mean_log"}

\* Positions in main() after after_update has returned, within the iteration
AfterCarry == {"save", "log", "eval", "mean_log"}

\* The last call of the current iteration was a successful insert
JustInserted ==
    /\ pc \in {"act", "get_value"}
    /\ calls # <<>>
    /\ calls[Len(calls)] = "insert"

\* C1: after_update makes slot 0 equal to what slot T held for observation,
\* hidden state and mask, and the first act call of every cycle j >= 1 gets
\* the observation and mask of the last insert and the hidden state returned
\* by the last act call of cycle j-1.
AfterUpdateCarries ==
    (pc = "after_update" /\ pc' = "save") =>
        /\ rollouts'.obs[0] = rollouts.obs[T]
        /\ rollouts'.recurrent_hidden_states[0] = rollouts.recurrent_hidden_states[T]
        /\ rollouts'.masks[0] = rollouts.masks[T]

FirstActContinues ==
    (pc = "env_step" /\ step = 0 /\ j >= 1) =>
        /\ act_args.obs = insert_args.obs
        /\ act_args.masks = insert_args.masks
        /\ act_args.hidden = act_prev_hidden
        /\ act_args.hidden = insert_args.hidden

C1_CarryForward == [][AfterUpdateCarries]_vars /\ []FirstActContinues

C1_Witness ==
    /\ pc = "env_step" /\ step = 0 /\ j >= 1
    /\ args.num_steps >= 2 /\ args.num_processes >= 2
    /\ act_args.obs = Tensor("obs", envs.clock)

\* C2: the calls of an iteration are T rounds of act, step, insert, then one
\* compute_returns, one update and one after_update, in this order.
IsCycleCall(e) ==
    e \in {"act", "step", "insert", "compute_returns", "update", "after_update"}

CycleCalls == SelectSeq(calls, IsCycleCall)

ExpectedCycle ==
    [n \in 1..(3 * T) |->
        IF n % 3 = 1 THEN "act" ELSE IF n % 3 = 2 THEN "step" ELSE "insert"]
    \o <<"compute_returns", "update", "after_update">>

C2_IterationOrder ==
    /\ IsPrefix(CycleCalls, ExpectedCycle)
    /\ pc \in AfterCarry => CycleCalls = ExpectedCycle
    /\ (pc = "loop" /\ j >= 1) => CycleCalls = ExpectedCycle
    /\ pc = "compute_returns" => Len(CycleCalls) = 3 * T
    /\ pc = "update" => Len(CycleCalls) = 3 * T + 1
    /\ pc = "after_update" => Len(CycleCalls) = 3 * T + 2

C2_Witness ==
    /\ pc = "loop" /\ j >= 2
    /\ args.num_steps >= 2
    /\ CycleCalls = ExpectedCycle

\* C3: at every call to insert fewer than T inserts were made since the last
\* after_update, so insert's precondition holds and insert never fails.
InsertsSinceCarry ==
    IF Count(calls, "after_update") > 0 THEN 0 ELSE Count(calls, "insert")

C3_InsertPrecondition ==
    /\ pc = "insert" => (InsertsSinceCarry < T /\ rollouts.step = InsertsSinceCarry)
    /\ failure = "precondition" => ~rollouts.allocated

C3_Witness ==
    /\ pc = "insert" /\ j >= 1
    /\ args.num_steps >= 2
    /\ InsertsSinceCarry = T - 1

\* C4: at every call to agent.update the buffer holds exactly T transitions
\* inserted since the last after_update.
C4_UpdatePrecondition ==
    pc = "update" => (InsertsSinceCarry = T /\ rollouts.step = T)

C4_Witness ==
    /\ pc = "update" /\ j >= 1
    /\ args.num_steps >= 2
    /\ rollouts.step = T

\* C5: the bootstrap value compute_returns receives is the result of the one
\* get_value call of the iteration, made without gradients on the record the
\* T-th insert wrote into slot T, after that insert and before
\* compute_returns.
C5_Bootstrap ==
    pc \in AfterEstimation =>
        /\ cr_args.next_value = Tensor("next_value", j)
        /\ cr_args.next_value = next_value
        /\ gv_args.no_grad
        /\ gv_args.obs = insert_args.obs /\ gv_args.obs = rollouts.obs[T]
        /\ gv_args.hidden = insert_args.hidden
        /\ gv_args.hidden = rollouts.recurrent_hidden_states[T]
        /\ gv_args.masks = insert_args.masks /\ gv_args.masks = rollouts.masks[T]
        /\ Count(calls, "get_value") = 1
        /\ Count(calls, "insert") = T
        /\ calls[3 * T] = "insert"
        /\ calls[3 * T + 1] = "get_value"
        /\ \A n \in 1..(3 * T + 1) : calls[n] # "compute_returns"

C5_Witness ==
    /\ pc = "update" /\ j >= 1
    /\ args.num_steps >= 2 /\ args.flicker
    /\ \E i \in Lanes : gv_args.obs[i] = Zero /\ gv_args.masks[i] = 0

\* C6: in every lane the inserted continuation mask is 1 when done is false
\* and 0 when it is true, and the inserted valid mask is 0 when the lane's
\* info carries bad_transition and 1 otherwise.
C6_Masks ==
    JustInserted =>
        \A i \in Lanes :
            /\ insert_args.masks[i] = (IF done[i] THEN 0 ELSE 1)
            /\ insert_args.bad_masks[i] =
                   (IF "bad_transition" \in infos[i].keys THEN 0 ELSE 1)
            /\ rollouts.masks[rollouts.step][i] = insert_args.masks[i]
            /\ rollouts.bad_masks[rollouts.step][i] = insert_args.bad_masks[i]

C6_Witness ==
    /\ JustInserted
    /\ \E i, k \in Lanes :
          /\ done[i] /\ "bad_transition" \in infos[i].keys
          /\ insert_args.masks[i] = 0 /\ insert_args.bad_masks[i] = 0
          /\ ~done[k] /\ "bad_transition" \notin infos[k].keys
          /\ insert_args.masks[k] = 1 /\ insert_args.bad_masks[k] = 1

\* C7 as stated: in every inserted record a valid mask of 0 comes with a
\* continuation mask of 0, whatever the environment returns.
C7_Original ==
    JustInserted =>
        \A i \in Lanes : insert_args.bad_masks[i] = 0 => insert_args.masks[i] = 0

\* C7 as amended: a valid mask of 0 together with a continuation mask of 1 is
\* inserted exactly for the lanes whose info carries bad_transition while done
\* is false; the driver builds the two masks independently.
C7_Amended ==
    JustInserted =>
        \A i \in Lanes :
            (insert_args.bad_masks[i] = 0 /\ insert_args.masks[i] = 1)
                <=> (~done[i] /\ "bad_transition" \in infos[i].keys)

C7_Witness ==
    /\ JustInserted
    /\ \E i, k \in Lanes :
          /\ insert_args.bad_masks[i] = 0 /\ insert_args.masks[i] = 1
          /\ insert_args.bad_masks[k] = 0 /\ insert_args.masks[k] = 0

\* C8: with gail on, compute_returns reads T rewards that all come from
\* predict_reward, written after the T-th insert and before compute_returns;
\* with gail off it reads exactly the rewards passed to insert.
C8_Rewards ==
    pc \in AfterEstimation =>
        IF args.gail
        THEN /\ \A t \in 1..T : \A i \in Lanes :
                    cr_args.rewards[t][i][1] = "predict_reward"
             /\ Count(calls, "predict_reward") = T
             /\ \A n \in 1..Len(calls) :
                    calls[n] = "predict_reward" =>
                        /\ n > 3 * T
                        /\ \A m \in 1..n : calls[m] # "compute_returns"
        ELSE /\ cr_args.rewards = inserted_rewards
             /\ Len(inserted_rewards) = T
             /\ Count(calls, "predict_reward") = 0

C8_Witness ==
    /\ pc = "update" /\ j >= 1 /\ args.gail
    /\ args.num_steps >= 2
    /\ cr_args.rewards[T] = Tensor("predict_reward", envs.clock)

\* C9: the policy parameters change only in agent.update, and the act calls
\* and the get_value call of one iteration read one parameter version.
OnlyUpdateWritesParams ==
    params' # params => (pc = "update" /\ pc' = "after_update")

OneVersionPerIteration ==
    /\ Cardinality(seen_params) <= 1
    /\ pc \in {"compute_returns", "gail_update", "gail_rewards"} =>
           seen_params = {params}

C9_ParamsFrame == [][OnlyUpdateWritesParams]_vars /\ []OneVersionPerIteration

C9_Witness ==
    /\ pc = "compute_returns" /\ j >= 1
    /\ args.num_steps >= 2 /\ args.use_linear_lr_decay /\ args.gail
    /\ seen_params = {j}
    /\ checkpoint # <<>>

\* The step records of the buffer: every slot the claim C10 lists
StepRecords(r) ==
    <<r.obs, r.recurrent_hidden_states, r.actions, r.action_log_probs,
      r.value_preds, r.rewards, r.masks, r.bad_masks>>

\* C10 as stated: only insert and after_update write a step record.
C10_Original ==
    [][StepRecords(rollouts)' # StepRecords(rollouts)
          => pc \in {"insert", "after_update"}]_vars

\* C10 as amended: the step records are written by insert, by after_update,
\* by the seeding of observation slot 0 after envs.reset() and, with gail on,
\* by the overwrite of the T reward slots; by no other step of the driver.
BufferWriters ==
    StepRecords(rollouts)' # StepRecords(rollouts) =>
        \/ pc \in {"insert", "after_update"}
        \/ /\ pc = "reset"
           /\ rollouts' = [rollouts EXCEPT !.obs[0] = rollouts'.obs[0]]
        \/ /\ pc = "gail_rewards" /\ args.gail
           /\ rollouts' = [rollouts EXCEPT !.rewards = rollouts'.rewards]

C10_Amended == [][BufferWriters]_vars

C10_Witness ==
    /\ pc = "compute_returns" /\ args.gail /\ j >= 1
    /\ rollouts.rewards[0] = Tensor("predict_reward", j * T + 1)
    /\ rollouts.obs[0] # Zeros

\* C11: envs.reset() is called once, before the first act call, and its
\* observation is copied into slot 0 next to the initial hidden state; neither
\* the call nor the copy happens again.
ResetOnlyAtStart ==
    envs'.resets # envs.resets =>
        /\ pc = "reset" /\ envs.resets = 0 /\ envs.clock = 0 /\ calls = <<>>
        /\ obs' = Tensor("obs", 0)
        /\ rollouts'.obs[0] = obs'

SeededOnce ==
    /\ envs.resets <= 1
    /\ (pc \notin {"start", "gail_setup", "make_rollouts", "reset", "aborted"}
           \/ calls # <<>>) => envs.resets = 1
    /\ (envs.resets = 1 /\ envs.clock = 0) =>
           /\ rollouts.obs[0] = Tensor("obs", 0)
           /\ rollouts.recurrent_hidden_states[0] = Zeros
    /\ (pc = "env_step" /\ envs.clock = 0) =>
           /\ act_args.obs = Tensor("obs", 0)
           /\ act_args.hidden = Zeros
    /\ \A t \in DOMAIN rollouts.obs : \A i \in Lanes :
           t > 0 => rollouts.obs[t][i] # <<"obs", 0, i>>

C11_InitialisedOnce == [][ResetOnlyAtStart]_vars /\ []SeededOnce

C11_Witness ==
    /\ pc = "env_step" /\ j >= 1
    /\ envs.resets = 1
    /\ args.num_processes >= 2

\* C12: after a failure of an environment or model call nothing happens any
\* more: no retry, no insert, no compute_returns, no update, no after_update,
\* no checkpoint.
NothingAfterFailure == failure # "none" => vars' = vars

AbortedWhereItStood ==
    /\ failure = "collaborator" => pc = "aborted"
    /\ pc = "aborted" => failure # "none"

C12_FailurePropagates == [][NothingAfterFailure]_vars /\ []AbortedWhereItStood

C12_Witness ==
    /\ failure = "collaborator" /\ pc = "aborted"
    /\ j >= 1
    /\ calls # <<>> /\ calls[Len(calls)] = "act"
    /\ checkpoint # <<>>

\* C13 as stated: the run is deterministic under one seed: no step of the
\* driver has two outcomes that differ in the observation it goes on to
\* insert.
DriverStepTo(o) == Next /\ failure' = "none" /\ obs' = o

C13_Original ==
    \A h1, h2 \in SUBSET Lanes :
        (ENABLED DriverStepTo(Flickered(obs, h1))
            /\ ENABLED DriverStepTo(Flickered(obs, h2)))
        => Flickered(obs, h1) = Flickered(obs, h2)

\* C14: every act call but the first of the run gets the observation and mask
\* of the insert just before it and the hidden state the act call before it
\* returned, within a cycle and across cycles.
C14_ContinuousStream ==
    (pc = "env_step" /\ envs.clock >= 1) =>
        /\ act_args.obs = insert_args.obs
        /\ act_args.masks = insert_args.masks
        /\ act_args.hidden = act_prev_hidden
        /\ act_prev_hidden = Tensor("hidden", envs.clock)
        /\ act_args.obs = obs
        /\ act_args.masks = masks

C14_Witness ==
    /\ pc = "env_step" /\ step >= 1 /\ j >= 1
    /\ args.flicker
    /\ \E i, k \in Lanes :
          act_args.obs[i] = Zero /\ act_args.obs[k] = <<"obs", envs.clock, k>>

\* C18: with gail on and an observation space that is not one-dimensional the
\* run stops at the assertion: no buffer, no reset, no step, no transition,
\* no update.
C18_GailAssertion ==
    (args.gail /\ args.obs_dims # 1) =>
        /\ pc \in {"start", "gail_setup", "aborted"}
        /\ pc = "aborted" => failure = "precondition"
        /\ ~rollouts.allocated
        /\ envs.resets = 0 /\ envs.clock = 0
        /\ rollouts.step = 0 /\ calls = <<>>
        /\ params = 0 /\ checkpoint = <<>>

C18_Witness ==
    /\ args.gail /\ args.obs_dims # 1
    /\ pc = "aborted" /\ failure = "precondition"

\* ---------------------------------------------------------------------
\* C15: the run makes floor(floor(num_env_steps / num_steps) / num_processes)
\* iterations; the transitions it collects, that many times num_steps times
\* num_processes, never exceed num_env_steps and fall short of it by less
\* than num_steps * num_processes; the defaults 10,000,000 / 5 / 16 give
\* 125,000 iterations; the step count printed at the log point of iteration
\* j, (j+1) * num_processes * num_steps, is the number of transitions
\* inserted so far.
TransitionsInserted == envs.clock * args.num_processes

ClaimedUpdates ==
    (args.num_env_steps \div args.num_steps) \div args.num_processes

C15_StepArithmetic ==
    /\ NumUpdatesOf(DefaultNumEnvSteps, DefaultNumSteps, DefaultNumProcesses)
           = 125000
    /\ TransitionsInserted <= args.num_env_steps
    /\ pc = "done" =>
          /\ j = ClaimedUpdates
          /\ TransitionsInserted
                = ClaimedUpdates * args.num_steps * args.num_processes
          /\ args.num_env_steps - TransitionsInserted
                < args.num_steps * args.num_processes
    /\ (/\ pc = "eval" /\ printed # <<>>
        /\ printed[Len(printed)].updates = j) =>
          printed[Len(printed)].total_num_steps = TransitionsInserted

C15_Witness ==
    /\ pc = "done" /\ j >= 2 /\ args.num_processes >= 2
    /\ args.num_env_steps > TransitionsInserted
    /\ printed # <<>> /\ printed[Len(printed)].updates >= 1

\* ---------------------------------------------------------------------
\* C16: iteration j writes a checkpoint exactly when save_dir is non-empty
\* and (j % save_interval = 0 or j = num_updates - 1), and writes it after
\* that iteration's update and after_update; so when num_updates >= 1 and
\* save_dir is non-empty, the last checkpoint holds the parameters of the
\* last update of the run.
SaveDue ==
    /\ args.save_dir # ""
    /\ j % args.save_interval = 0 \/ j = num_updates - 1

CheckpointStep ==
    /\ (pc = "save" /\ SaveDue) =>
          checkpoint' = Append(checkpoint, [j |-> j, params |-> params])
    /\ checkpoint' # checkpoint =>
          /\ pc = "save" /\ SaveDue
          /\ Len(calls) >= 2
          /\ calls[Len(calls) - 1] = "update"
          /\ calls[Len(calls)] = "after_update"
          /\ params = j + 1
          /\ rollouts.step = 0

LastCheckpoint ==
    (pc = "done" /\ num_updates >= 1 /\ args.save_dir # "") =>
        /\ checkpoint # <<>>
        /\ checkpoint[Len(checkpoint)].j = num_updates - 1
        /\ checkpoint[Len(checkpoint)].params = params
        /\ params = num_updates

C16_Checkpoints == [][CheckpointStep]_vars /\ []LastCheckpoint

C16_Witness ==
    /\ pc = "done" /\ j >= 4 /\ j % args.save_interval = 0
    /\ Len(checkpoint) >= 3 /\ Len(checkpoint) < j
    /\ checkpoint[Len(checkpoint)].params = params

\* ---------------------------------------------------------------------
\* C17: when no collaborator call fails the run ends; it ends after exactly
\* num_updates iterations, having written one mean-reward file, named by
\* the priority IAM, recurrent_policy, num_steps = 10, else FNN8; with
\* num_updates = 0 there is no environment step, no insert, no update and
\* no checkpoint, and the file holds the empty list.
ExpectedFile ==
    CASE args.IAM -> "mean_rewards_IAM.txt"
      [] ~args.IAM /\ args.recurrent_policy -> "mean_rewards_GRU.txt"
      [] ~args.IAM /\ ~args.recurrent_policy /\ args.num_steps = FNN1NumSteps
            -> "mean_rewards_FNN1.txt"
      [] OTHER -> "mean_rewards_FNN8.txt"

FileStep ==
    log_mean_file' # log_mean_file =>
        /\ pc = "write_log" /\ pc' = "done"
        /\ log_mean_file.name = "none"
        /\ j = num_updates

Finished ==
    /\ pc # "done" => log_mean_file.name = "none"
    /\ pc = "done" =>
          /\ failure = "none"
          /\ j = num_updates
          /\ params = num_updates
          /\ envs.clock = num_updates * args.num_steps
          /\ log_mean_file =
                [name |-> ExpectedFile, dump |-> mean_episode_rewards]
          /\ num_updates = 0 =>
                /\ envs.clock = 0 /\ calls = <<>> /\ rollouts.step = 0
                /\ params = 0 /\ checkpoint = <<>>
                /\ log_mean_file.dump = <<>>

C17_Terminates ==
    /\ <>(pc = "done" \/ failure = "collaborator")
    /\ []Finished
    /\ [][FileStep]_vars

C17_Witness ==
    /\ pc = "done" /\ num_updates >= 2
    /\ ~args.IAM /\ args.recurrent_policy
    /\ log_mean_file.name = "mean_rewards_GRU.txt"
    /\ log_mean_file.dump # <<>>

====
